---- MODULE Spec2Model ----
(***************************************************************************)
(* Model of the smoke detector monitor (src/smoke_detector_monitor.py):    *)
(* the per-channel calibration and alerting engine (SmokeDetectorChannel)  *)
(* and the polling loop that dispatches frames to it                       *)
(* (SmokeDetectorMonitor.run), together with the dashboard's writes to the *)
(* shared settings table (src/dashboard.py).                               *)
(*                                                                         *)
(* Numbers.  A sample is <<v>> for the integer v and <<>> for numpy's nan. *)
(* A baseline mean is the exact rational num/den in lowest terms; a        *)
(* baseline standard deviation is held by its square, the population       *)
(* variance num/den in lowest terms, so that std = 0 iff num = 0 and       *)
(* |z| > 5 iff (value - mean)^2 > 25 * variance.  kind is "None" for       *)
(* Python's None, "nan" for numpy's nan and "num" for a number.            *)
(***************************************************************************)
EXTENDS Integers, Sequences, FiniteSets, TLC

\* ---- bounds of the model ------------------------------------------------
MaxTicks == 3

\* ---- program constants --------------------------------------------------
calculation_interval == 180
restart_budget == 36000
z_threshold == 5
alert_insert_columns == 10
alert_insert_placeholders == 9
min_parts == 5

KeySet == {"R", "G", "IR"}

atlaspc_channel_map == (1 :> 20) @@ (2 :> 21) @@ (3 :> 22)

defaults ==
    [email_enabled |-> "false", auto_shutdown_enabled |-> "false",
     monitoring_active |-> "false"]

SettingKeys == {"email_enabled", "auto_shutdown_enabled", "monitoring_active"}

\* ---- arithmetic helpers -------------------------------------------------
Abs(x) == IF x < 0 THEN -x ELSE x

RECURSIVE GCD(_, _)
GCD(a, b) == IF b = 0 THEN a ELSE GCD(b, a % b)

\* the rational n/d (d > 0) in lowest terms
Rat(n, d) ==
    LET g == GCD(Abs(n), d)
    IN  [kind |-> "num", num |-> n \div g, den |-> d \div g]

None == [kind |-> "None", num |-> 0, den |-> 1]
NaN == [kind |-> "nan", num |-> 0, den |-> 1]

RECURSIVE nonmissing(_)
nonmissing(buf) ==
    IF buf = <<>> THEN <<>>
    ELSE IF Head(buf) = <<>> THEN nonmissing(Tail(buf))
    ELSE <<Head(buf)[1]>> \o nonmissing(Tail(buf))

RECURSIVE SumSeq(_)
SumSeq(s) == IF s = <<>> THEN 0 ELSE Head(s) + SumSeq(Tail(s))

RECURSIVE SumSq(_)
SumSq(s) == IF s = <<>> THEN 0 ELSE Head(s) * Head(s) + SumSq(Tail(s))

\* numpy.nanmean: the mean of the non-nan entries, nan when there is none
nanmean(buf) ==
    LET xs == nonmissing(buf)
    IN  IF xs = <<>> THEN NaN ELSE Rat(SumSeq(xs), Len(xs))

\* numpy.nanstd (ddof = 0), as the population variance of the non-nan
\* entries: (n * sum(x^2) - sum(x)^2) / n^2; nan when there is none
nanstd(buf) ==
    LET xs == nonmissing(buf)
        n == Len(xs)
    IN  IF xs = <<>> THEN NaN
        ELSE Rat(n * SumSq(xs) - SumSeq(xs) * SumSeq(xs), n * n)

\* ---- frame parser -------------------------------------------------------
\* A line is the sequence of its ';'-separated parts; a part is the sequence
\* of its ':'-separated pieces: <<label>> or <<label, token>>, the token
\* being <<n>> for the text of the integer n and <<>> for any other text.
Field(label, n) == <<label, <<n>>>>
BadField(label) == <<label, <<>>>>
EmptyPart == <<"">>

\* Python's  x in text  for the labels that occur on the wire
Contains(text, x) ==
    \/ text = x
    \/ (x = "R" /\ text = "IR")

InLine(line, x) == \E i \in 1..Len(line) : Contains(line[i][1], x)

EmptyDict == [l \in {} |-> 0]

parse_line(line) ==
    IF Len(line) < min_parts \/ ~Contains(line[1][1], "CH") THEN EmptyDict
    ELSE IF \E x \in {"CH", "R", "G", "IR"} : ~InLine(line, x) THEN EmptyDict
    ELSE IF \E i \in 1..4 : Len(line[i]) # 2 THEN EmptyDict
    ELSE IF \E i \in 1..4 : line[i][2] = <<>> THEN EmptyDict
    ELSE (line[4][1] :> line[4][2][1]) @@ (line[3][1] :> line[3][2][1])
         @@ (line[2][1] :> line[2][2][1]) @@ (line[1][1] :> line[1][2][1])

\* ReadError stands for a readline that raises (a serial error)
ReadError == <<<<"?">>>>

read_smoke_detector(open, line) ==
    IF ~open \/ line = ReadError THEN EmptyDict ELSE parse_line(line)

\* ---- SmokeDetectorChannel -----------------------------------------------
new_channel(atlaspc, channel_number, t) ==
    [atlaspc |-> atlaspc, channel |-> channel_number,
     saved_values |-> [k \in KeySet |-> <<>>],
     means |-> [k \in KeySet |-> None],
     sds |-> [k \in KeySet |-> None],
     last_calculation_time |-> t]

\* add_reading without the else branch of line 59: only the wavelengths of
\* the reading are appended
add_reading_present_only(ch, values) ==
    [ch EXCEPT !.saved_values =
        [k \in KeySet |->
            IF k \in DOMAIN values THEN Append(@[k], <<values[k]>>) ELSE @[k]]]

add_reading(ch, values) ==
    [ch EXCEPT !.saved_values =
        [k \in KeySet |->
            Append(@[k], IF k \in DOMAIN values THEN <<values[k]>> ELSE <<>>)]]

should_calculate_statistics(ch, t) ==
    t - ch.last_calculation_time >= calculation_interval

\* update_baselines with a nan result taken for "no baseline": None is stored
update_baselines_dropnan(ch) ==
    LET unnan(b) == IF b.kind = "nan" THEN None ELSE b
    IN  [ch EXCEPT
            !.means = [k \in KeySet |->
                IF Len(ch.saved_values[k]) > 0
                THEN unnan(nanmean(ch.saved_values[k])) ELSE @[k]],
            !.sds = [k \in KeySet |->
                IF Len(ch.saved_values[k]) > 0
                THEN unnan(nanstd(ch.saved_values[k])) ELSE @[k]],
            !.saved_values = [k \in KeySet |->
                IF Len(ch.saved_values[k]) > 0 THEN <<>> ELSE @[k]]]

\* lines 68-72: the baselines of every wavelength with a non-empty buffer
update_baselines(ch) ==
    [ch EXCEPT
        !.means = [k \in KeySet |->
            IF Len(ch.saved_values[k]) > 0 THEN nanmean(ch.saved_values[k]) ELSE @[k]],
        !.sds = [k \in KeySet |->
            IF Len(ch.saved_values[k]) > 0 THEN nanstd(ch.saved_values[k]) ELSE @[k]],
        !.saved_values = [k \in KeySet |->
            IF Len(ch.saved_values[k]) > 0 THEN <<>> ELSE @[k]]]

\* calculate_statistics without the assignment of line 90
calculate_statistics_stale(ch, t, fault) ==
    LET c1 == update_baselines(ch)
    IN  IF fault = "statistics"
        THEN [ch |-> c1, stored |-> FALSE, raised |-> TRUE]
        ELSE IF \E k \in KeySet : c1.means[k].kind = "None" \/ c1.sds[k].kind = "None"
        THEN [ch |-> c1, stored |-> TRUE, raised |-> TRUE]
        ELSE [ch |-> c1, stored |-> TRUE, raised |-> FALSE]

\* the whole of calculate_statistics: the baselines, then the INSERT into
\* statistics (fault = "statistics" is its failure), then the log line,
\* whose format raises on a None baseline, then the timestamp
calculate_statistics(ch, t, fault) ==
    LET c1 == update_baselines(ch)
    IN  IF fault = "statistics"
        THEN [ch |-> c1, stored |-> FALSE, raised |-> TRUE]
        ELSE IF \E k \in KeySet : c1.means[k].kind = "None" \/ c1.sds[k].kind = "None"
        THEN [ch |-> c1, stored |-> TRUE, raised |-> TRUE]
        ELSE [ch |-> [c1 EXCEPT !.last_calculation_time = t],
              stored |-> TRUE, raised |-> FALSE]

is_calibrated(ch) ==
    \A k \in KeySet : ch.means[k].kind # "None" /\ ch.sds[k].kind # "None"

get_remaining_calibration_time(ch, t) ==
    calculation_interval - (t - ch.last_calculation_time)

\* a z-score by its sign and its square sq.num / sq.den; nan when the
\* baseline is nan
zscore(v, mean, sd) ==
    IF mean.kind = "nan" \/ sd.kind = "nan"
    THEN [kind |-> "nan", neg |-> FALSE, sq |-> NaN]
    ELSE LET dev == v * mean.den - mean.num
         IN  [kind |-> "num", neg |-> dev < 0,
              sq |-> Rat(dev * dev * sd.den, mean.den * mean.den * sd.num)]

calculate_z_scores(ch, values) ==
    [k \in {x \in KeySet :
                /\ x \in DOMAIN values
                /\ ch.means[x].kind # "None"
                /\ ch.sds[x].kind # "None"
                /\ ~(ch.sds[x].kind = "num" /\ ch.sds[x].num = 0)}
        |-> zscore(values[k], ch.means[k], ch.sds[k])]

\* abs(z) > 5; every comparison with nan is false
exceeds(z) ==
    z.kind = "num" /\ z.sq.num > z_threshold * z_threshold * z.sq.den

\* the INSERT of save_alert names alert_insert_columns columns and gives
\* alert_insert_placeholders placeholders: sqlite3 refuses to prepare it
save_alert(fault) ==
    alert_insert_placeholders = alert_insert_columns /\ fault # "alerts"

\* <<>> when email is disabled, else the one attempt and its outcome
send_email(st, subject, fault) ==
    IF st["email_enabled"] # "true" THEN <<>>
    ELSE <<[subject |-> subject, delivered |-> fault # "smtp"]>>

shutdown_power_supply(ch) == TRUE

NoAlert ==
    [warning |-> FALSE, critical |-> FALSE, saved |-> <<>>, mailed |-> <<>>,
     shutdown |-> FALSE, raised |-> FALSE]

\* lines 175-186
warning_branch(st, fault) ==
    IF ~save_alert(fault)
    THEN [NoAlert EXCEPT !.warning = TRUE, !.raised = TRUE]
    ELSE [NoAlert EXCEPT !.warning = TRUE, !.saved = <<"WARNING">>,
                         !.mailed = send_email(st, "WARNING", fault)]

\* lines 189-204, after the outcome w of the WARNING step
critical_branch(ch, st, fault, w) ==
    IF ~save_alert(fault)
    THEN [w EXCEPT !.critical = TRUE, !.raised = TRUE]
    ELSE [w EXCEPT !.critical = TRUE,
                   !.saved = Append(@, "CRITICAL"),
                   !.mailed = @ \o send_email(st, "CRITICAL", fault),
                   !.shutdown = st["auto_shutdown_enabled"] = "true"
                                /\ shutdown_power_supply(ch)]

\* line 175 with all() written for any()
any_triggered_as_all(conditions) ==
    DOMAIN conditions # {} /\ \A k \in DOMAIN conditions : conditions[k]

\* line 175: any(conditions.values())
any_triggered(conditions) == \E k \in DOMAIN conditions : conditions[k]

\* line 189: all(conditions.get(key, False) for key in ['R', 'G', 'IR'])
all_triggered(conditions) ==
    \A k \in KeySet : k \in DOMAIN conditions /\ conditions[k]

check_alerts(ch, values, st, fault) ==
    IF ~is_calibrated(ch) THEN NoAlert
    ELSE LET z_scores == calculate_z_scores(ch, values)
             conditions == [k \in DOMAIN z_scores |-> exceeds(z_scores[k])]
             w == IF any_triggered(conditions)
                  THEN warning_branch(st, fault) ELSE NoAlert
         IN  IF w.raised THEN w
             ELSE IF all_triggered(conditions)
             THEN critical_branch(ch, st, fault, w)
             ELSE w

\* the alert step with the calibration gates lost: a WARNING is stored and
\* notified for every frame
alert_step_ungated(ch, values, st, fault) ==
    [NoAlert EXCEPT !.warning = TRUE, !.saved = <<"WARNING">>,
                    !.mailed = send_email(st, "WARNING", fault)]

\* lines 485-490 of run(): alerts are checked for a calibrated channel only
alert_step(ch, values, st, fault) ==
    IF is_calibrated(ch) THEN check_alerts(ch, values, st, fault) ELSE NoAlert

\* ---- SmokeDetectorMonitor -----------------------------------------------
VARIABLES
    pc,              \* "idle": not started; "init": in __init__, the
                     \* settings selected and not yet seeded; "loop": in
                     \* run()'s while loop;
                     \* "exec": os.execv called, the new image not yet up;
                     \* "exited": run() has returned
    now,             \* time.time(), in seconds
    restart_time,    \* self.restart_time
    arduino_serial,  \* TRUE while the serial port is open
    settings,        \* self.settings, shared with every channel
    db_settings,     \* the settings table
    channels,        \* self.channels
    readings,        \* the readings table, by the (atlaspc, channel) of its rows
    statistics,      \* the statistics table, by the (atlaspc, channel) of its rows
    alerts,          \* the alerts table
    mails,           \* the Notifier sends attempted
    shutdowns,       \* the channels whose shutdown hook was invoked
    tick,            \* what the last iteration of the loop did
    sampled,         \* per channel, the wavelengths that had a non-missing
                     \* sample in the buffer of some recompute of this process
    ticks,           \* iterations so far
    stop_requested   \* the dashboard has stored monitoring_active = 'false'
                     \* under a running loop and has not stored 'true'
                     \* since; reset when the loop ends

vars == <<pc, now, restart_time, arduino_serial, settings, db_settings,
          channels, readings, statistics, alerts, mails, shutdowns, tick,
          sampled, ticks, stop_requested>>

\* the dict load_settings returns for the rows db it has selected: the rows
\* and the defaults of the absent keys
load_settings(db) ==
    [k \in SettingKeys |-> IF k \in DOMAIN db THEN db[k] ELSE defaults[k]]

\* lines 323-326: the settings table db after the defaults of the keys that
\* were absent from the selected rows have been written with INSERT OR
\* REPLACE
seed_defaults(db, selected) ==
    [k \in SettingKeys \cup DOMAIN db |->
        IF k \in SettingKeys \ DOMAIN selected THEN defaults[k] ELSE db[k]]

\* INSERT OR REPLACE of one row of the settings table, and the assignment
\* self.settings[key] = value
update_setting(st, key, value) == (key :> value) @@ st

\* a lookup that makes a new channel object for every frame
get_or_create_channel_fresh(chs, atlaspc, channel_number, t) ==
    (channel_number :> new_channel(atlaspc, channel_number, t)) @@ chs

get_or_create_channel(chs, atlaspc, channel_number, t) ==
    IF channel_number \in DOMAIN chs THEN chs
    ELSE (channel_number :> new_channel(atlaspc, channel_number, t)) @@ chs

\* ---- inputs -------------------------------------------------------------
\* readings <<R, G, IR>>: against the baseline of 10 and 12 (mean 11, std 1)
\* a value of 12 has z = 1, of 16 z = 5 and of 17 z = 6
Triples == {<<10, 10, 10>>, <<12, 12, 12>>, <<17, 16, 12>>, <<17, 17, 17>>}

DataLine(c, v) ==
    <<Field("CH", c), Field("R", v[1]), Field("IR", v[3]), Field("G", v[2]), EmptyPart>>
\* a frame whose second field is not labelled R
NoRLine(c, v) ==
    <<Field("CH", c), Field("X", v), Field("IR", v), Field("G", v), EmptyPart>>
\* the frame of a channel whose R sensor is absent: it reads 0
AbsentRLine(c) == DataLine(c, <<0, 10, 10>>)
StatusLine == <<<<"STATUS">>, <<"CH">>, <<"1">>, <<"PRESENT">>, <<"yes">>>>
BadIntLine ==
    <<Field("CH", 1), BadField("R"), Field("IR", 10), Field("G", 10), EmptyPart>>
ShortLine == <<Field("CH", 1), Field("R", 10), Field("IR", 10), Field("G", 10)>>

Lines ==
    {DataLine(1, v) : v \in Triples}
    \cup {NoRLine(1, 10), AbsentRLine(2), DataLine(9, <<10, 10, 10>>)}
    \cup {<<EmptyPart>>, StatusLine, BadIntLine, ShortLine, ReadError}

\* the line has a field labelled x
HasField(line, x) == \E i \in 1..Len(line) : line[i][1] = x

\* the line has the channel tag and the three wavelengths as field labels
Labelled(line) == \A x \in {"CH", "R", "G", "IR"} : HasField(line, x)

\* the line is a heartbeat, has too few fields, lacks a label or has a field
\* that is not label:integer
Malformed(line) ==
    \/ line[1][1] = "STATUS"
    \/ Len(line) < min_parts
    \/ ~Labelled(line)
    \/ \E i \in 1..4 : Len(line[i]) # 2 \/ line[i][2] = <<>>

\* the calls of an iteration that can fail: the INSERT of save_reading, the
\* INSERT of calculate_statistics, the DELETE of cleanup_old_readings and
\* the SMTP session of send_email
Faults == {"save_reading", "statistics", "cleanup", "smtp"}

\* the frames during which a fault is injected, each with the faults that
\* the frame can meet: the database faults on a quiet reading, the mail
\* fault on a reading that deviates on every wavelength
FaultCases ==
    {<<DataLine(1, <<12, 12, 12>>), f>> : f \in Faults \ {"smtp"}}
    \cup {<<DataLine(1, <<17, 17, 17>>), "smtp">>}

\* the frames after which the loop may stall
LongLines == {DataLine(1, <<10, 10, 10>>), DataLine(1, <<12, 12, 12>>), NoRLine(1, 10)}

\* seconds from one iteration to the next: the nominal second, after a
\* reading a stall of a whole calculation interval and, on a silent link, of
\* the restart budget
Steps(line) ==
    IF line = <<EmptyPart>> THEN {1, restart_budget}
    ELSE IF line \in LongLines THEN {1, calculation_interval}
    ELSE {1}

\* the settings the dashboard writes
DashboardWrites ==
    {<<"monitoring_active", "false">>, <<"monitoring_active", "true">>,
     <<"email_enabled", "true">>, <<"email_enabled", "false">>}

NoTick ==
    [labelled |-> FALSE, malformed |-> FALSE, fault |-> "none",
     ch |-> 0, values |-> EmptyDict, created |-> FALSE, precal |-> FALSE,
     reading |-> FALSE, buffered |-> [k \in KeySet |-> 0],
     elapsed |-> 0, recompute |-> "none", cleaned |-> FALSE, checked |-> FALSE,
     alert |-> NoAlert, raised |-> FALSE, at |-> 0]

\* the KeyError of line 466 swallowed: the frame is dropped and the loop
\* goes on
unmapped_channel_dropped(chs, obs) == [channels |-> chs, obs |-> obs]

\* lines 465-468: the channel tag is not a key of atlaspc_channel_map; the
\* KeyError is raised again as a ValueError, before any channel is looked up
unmapped_channel(chs, obs) ==
    [channels |-> chs, obs |-> [obs EXCEPT !.raised = TRUE]]

\* ---- the loop body, lines 462-490, for a frame with a channel tag -------
\* the outcome of dispatching values at time t: the registry, the rows
\* written and the observations of the iteration
dispatch(chs, values, st, t, fault) ==
    LET channel_number == values["CH"]
        obs == [NoTick EXCEPT !.values = values, !.at = t]
    IN  IF channel_number \notin DOMAIN atlaspc_channel_map
        THEN unmapped_channel(chs, obs)
        ELSE
        LET atlaspc == atlaspc_channel_map[channel_number]
            chs1 == get_or_create_channel(chs, atlaspc, channel_number, t)
            o1 == [obs EXCEPT !.ch = channel_number,
                              !.created = channel_number \notin DOMAIN chs,
                              !.precal = is_calibrated(chs1[channel_number])]
        IN  IF fault = "save_reading"
            THEN [channels |-> chs1,
                  obs |-> [o1 EXCEPT !.raised = TRUE, !.fault = fault]]
            ELSE
            LET c2 == add_reading(chs1[channel_number], values)
                due == should_calculate_statistics(c2, t)
                calc == IF due THEN calculate_statistics(c2, t, fault)
                        ELSE [ch |-> c2, stored |-> FALSE, raised |-> FALSE]
                chs3 == [chs1 EXCEPT ![channel_number] = calc.ch]
                o2 == [o1 EXCEPT !.reading = TRUE,
                                 !.buffered =
                                     [k \in KeySet |-> Len(c2.saved_values[k])],
                                 !.fault = IF due /\ fault \in {"statistics", "cleanup"}
                                           THEN fault ELSE "none",
                                 !.elapsed = t - c2.last_calculation_time,
                                 !.recompute = IF ~due THEN "none"
                                               ELSE IF calc.raised
                                               THEN (IF calc.stored THEN "unlogged" ELSE "unsaved")
                                               ELSE "done"]
            IN  IF calc.raised
                THEN [channels |-> chs3, obs |-> [o2 EXCEPT !.raised = TRUE]]
                ELSE IF due /\ fault = "cleanup"
                THEN [channels |-> chs3, obs |-> [o2 EXCEPT !.raised = TRUE]]
                ELSE
                LET a == alert_step(calc.ch, values, st, fault)
                IN  [channels |-> chs3,
                     obs |-> [o2 EXCEPT !.cleaned = due, !.checked = TRUE,
                                        !.alert = a, !.raised = a.raised,
                                        !.fault =
                                            IF /\ fault = "smtp" /\ a.warning
                                               /\ st["email_enabled"] = "true"
                                            THEN fault ELSE "none"]]

\* ---- state machine ------------------------------------------------------
Init ==
    /\ pc = "idle"
    /\ now = 0
    /\ restart_time = 0
    /\ arduino_serial = FALSE
    /\ settings = defaults
    /\ db_settings = EmptyDict
    /\ channels = EmptyDict
    /\ readings = {}
    /\ statistics = {}
    /\ alerts = <<>>
    /\ mails = <<>>
    /\ shutdowns = {}
    /\ tick = NoTick
    /\ sampled = EmptyDict
    /\ ticks = 0
    /\ stop_requested = FALSE

\* a new process whose registry is not made anew
SelectSettings_keeping_channels ==
    /\ pc \in {"idle", "exec"}
    /\ pc' = "init"
    /\ settings' = db_settings
    /\ restart_time' = now + restart_budget
    /\ tick' = NoTick
    /\ UNCHANGED <<now, arduino_serial, db_settings, channels, sampled, readings,
                   statistics, alerts, mails, shutdowns, ticks, stop_requested>>

\* the start of a process, __init__ up to the SELECT of load_settings
\* (lines 210-220 and 306-313): the image has no channel, the budget runs
\* from now, the settings table exists and its rows are selected
SelectSettings ==
    /\ pc \in {"idle", "exec"}
    /\ pc' = "init"
    /\ settings' = db_settings
    /\ restart_time' = now + restart_budget
    /\ channels' = EmptyDict
    /\ tick' = NoTick
    /\ sampled' = EmptyDict
    /\ UNCHANGED <<now, arduino_serial, db_settings, readings, statistics,
                   alerts, mails, shutdowns, ticks, stop_requested>>

\* a start that stores monitoring_active = 'true' before it connects
Start_marking_active_first(connect_ok) ==
    /\ pc = "init"
    /\ LET st == load_settings(settings)
           db == seed_defaults(db_settings, settings)
       IN  /\ settings' = update_setting(st, "monitoring_active", "true")
           /\ db_settings' = update_setting(db, "monitoring_active", "true")
           /\ IF connect_ok
              THEN arduino_serial' = TRUE /\ pc' = "loop" /\ tick' = tick
              ELSE /\ arduino_serial' = FALSE /\ pc' = "exited"
                   /\ tick' = [NoTick EXCEPT !.fault = "connect"]
    /\ UNCHANGED <<now, restart_time, channels, sampled, readings, statistics,
                   alerts, mails, shutdowns, ticks, stop_requested>>

\* the rest of __init__ and the prologue of run(): the seeding of the
\* defaults (lines 323-328), then connect_arduino and update_setting (lines
\* 429-437); connect_ok is whether serial.Serial(...) opens the port
Start(connect_ok) ==
    /\ pc = "init"
    /\ LET st == load_settings(settings)
           db == seed_defaults(db_settings, settings)
       IN  IF connect_ok
           THEN /\ arduino_serial' = TRUE
                /\ settings' = update_setting(st, "monitoring_active", "true")
                /\ db_settings' = update_setting(db, "monitoring_active", "true")
                /\ pc' = "loop"
                /\ tick' = tick
           ELSE /\ arduino_serial' = FALSE
                /\ settings' = st
                /\ db_settings' = db
                /\ pc' = "exited"
                /\ tick' = [NoTick EXCEPT !.fault = "connect"]
    /\ UNCHANGED <<now, restart_time, channels, sampled, readings, statistics,
                   alerts, mails, shutdowns, ticks, stop_requested>>

\* the finally clause of run(), lines 498-502, on the settings dict st
Finally(st) ==
    /\ arduino_serial' = FALSE
    /\ settings' = update_setting(st, "monitoring_active", "false")
    /\ db_settings' = update_setting(db_settings, "monitoring_active", "false")
    /\ pc' = "exited"
    /\ stop_requested' = FALSE

\* the while condition of line 440 found false
LoopExit ==
    /\ pc = "loop"
    /\ settings["monitoring_active"] # "true"
    /\ Finally(settings)
    /\ UNCHANGED <<now, restart_time, channels, readings, statistics,
                   alerts, mails, shutdowns, tick, sampled, ticks>>

\* Ctrl-C during the loop, lines 494-495
KeyboardInterrupt ==
    /\ pc = "loop"
    /\ Finally(settings)
    /\ UNCHANGED <<now, restart_time, channels, readings, statistics,
                   alerts, mails, shutdowns, tick, sampled, ticks>>

\* the scheduled restart, lines 443-450
ScheduledRestart ==
    /\ pc = "loop"
    /\ settings["monitoring_active"] = "true"
    /\ now >= restart_time
    /\ arduino_serial' = FALSE
    /\ settings' = update_setting(settings, "monitoring_active", "false")
    /\ db_settings' = update_setting(db_settings, "monitoring_active", "false")
    /\ pc' = "exec"
    /\ UNCHANGED <<now, restart_time, channels, readings, statistics,
                   alerts, mails, shutdowns, tick, sampled, ticks,
                   stop_requested>>

\* one iteration of the loop, lines 452-492: reload the settings, read a
\* line, dispatch it, sleep (d seconds pass before the next iteration); an
\* exception leaves the loop through the finally clause
Tick(line, d, fault) ==
    /\ pc = "loop"
    /\ ticks < MaxTicks
    /\ settings["monitoring_active"] = "true"
    /\ now < restart_time
    /\ ticks' = ticks + 1
    /\ LET st == load_settings(db_settings)
           values == read_smoke_detector(arduino_serial, line)
       IN  IF DOMAIN values = {} \/ "CH" \notin DOMAIN values
           THEN /\ settings' = st
                /\ db_settings' = st
                /\ tick' = [NoTick EXCEPT !.at = now,
                                          !.labelled = Labelled(line),
                                          !.malformed = Malformed(line)]
                /\ now' = now + d
                /\ UNCHANGED <<pc, arduino_serial, channels, readings, statistics,
                               alerts, mails, shutdowns, sampled, stop_requested>>
           ELSE LET c == values["CH"]
                    r == dispatch(channels, values, st, now, fault)
                    o == [r.obs EXCEPT !.labelled = Labelled(line),
                                       !.malformed = Malformed(line)]
                    row == <<atlaspc_channel_map[c], c>>
                    pre == get_or_create_channel(channels, row[1], c, now)[c]
                    buf == add_reading(pre, values).saved_values
                    seen == {k \in KeySet : nonmissing(buf[k]) # <<>>}
                    old == IF c \in DOMAIN sampled THEN sampled[c] ELSE {}
                IN  /\ channels' = r.channels
                    /\ tick' = o
                    /\ sampled' =
                          IF o.ch = 0 THEN sampled
                          ELSE IF o.recompute = "none" THEN (c :> old) @@ sampled
                          ELSE (c :> (old \cup seen)) @@ sampled
                    /\ readings' = IF o.reading THEN readings \cup {row} ELSE readings
                    /\ statistics' = IF o.recompute \in {"done", "unlogged"}
                                     THEN statistics \cup {row} ELSE statistics
                    /\ alerts' = alerts \o
                          [i \in 1..Len(o.alert.saved) |->
                              [atlaspc |-> row[1], channel |-> c,
                               alert_type |-> o.alert.saved[i]]]
                    /\ mails' = mails \o o.alert.mailed
                    /\ shutdowns' = IF o.alert.shutdown THEN shutdowns \cup {c}
                                    ELSE shutdowns
                    /\ IF o.raised
                       THEN /\ arduino_serial' = FALSE
                            /\ settings' = update_setting(st, "monitoring_active", "false")
                            /\ db_settings' = update_setting(st, "monitoring_active", "false")
                            /\ pc' = "exited"
                            /\ now' = now
                            /\ stop_requested' = FALSE
                       ELSE /\ settings' = st
                            /\ db_settings' = st
                            /\ now' = now + d
                            /\ UNCHANGED <<pc, arduino_serial, stop_requested>>
    /\ UNCHANGED restart_time

\* the dashboard's update_setting (src/dashboard.py): the Start button and
\* a ticked checkbox store 'true' over any other value, the Stop button and
\* a cleared checkbox store 'false' over 'true'.  The write fails, and is
\* swallowed, while no process has created the settings table; it is of no
\* interest once run() has returned.  Mail is switched on and off while a
\* calibrated channel is being monitored.
ExternalUpdate(key, value) ==
    /\ pc \notin {"idle", "exited"}
    /\ key = "email_enabled" =>
          pc = "loop" /\ \E c \in DOMAIN channels : is_calibrated(channels[c])
    /\ LET stored == IF key \in DOMAIN db_settings THEN db_settings[key] ELSE "absent"
       IN  IF value = "true" THEN stored # "true" ELSE stored = "true"
    /\ db_settings' = (key :> value) @@ db_settings
    /\ stop_requested' =
          IF key = "monitoring_active"
          THEN value = "false" /\ pc = "loop"
          ELSE stop_requested
    /\ UNCHANGED <<pc, now, restart_time, arduino_serial, settings, channels,
                   readings, statistics, alerts, mails, shutdowns, tick, sampled,
                   ticks>>

Next ==
    \/ SelectSettings
    \/ \E connect_ok \in BOOLEAN : Start(connect_ok)
    \/ LoopExit
    \/ KeyboardInterrupt
    \/ ScheduledRestart
    \/ \E line \in Lines : \E d \in Steps(line) : Tick(line, d, "none")
    \/ \E f \in FaultCases : Tick(f[1], 1, f[2])
    \/ \E w \in DashboardWrites : ExternalUpdate(w[1], w[2])

Spec == Init /\ [][Next]_vars

\* the steps the monitor process takes by itself: the start of a process
\* and the iterations and the exit of the loop with all calls succeeding
MonitorStep ==
    \/ SelectSettings
    \/ \E connect_ok \in BOOLEAN : Start(connect_ok)
    \/ LoopExit
    \/ ScheduledRestart
    \/ \E line \in Lines : \E d \in Steps(line) : Tick(line, d, "none")

\* the monitor keeps running: a step it can take is taken
LiveSpec == Spec /\ WF_vars(MonitorStep)

\* ---- properties ---------------------------------------------------------
\* the channel the last iteration dispatched its frame to
Dispatched == tick.ch # 0
TickChannel == channels[tick.ch]

Unset(ch) ==
    \E k \in KeySet : ch.means[k].kind = "None" \/ ch.sds[k].kind = "None"

\* wavelength k of the reading is scored against the baseline of ch
Scored(ch, values, k) ==
    /\ k \in DOMAIN values
    /\ ch.means[k].kind # "None" /\ ch.sds[k].kind # "None"
    /\ ~(ch.sds[k].kind = "num" /\ ch.sds[k].num = 0)

\* |(value - mean) / std| > 5, as (value - mean)^2 > 25 * variance
Deviates(ch, values, k) ==
    /\ Scored(ch, values, k)
    /\ ch.means[k].kind = "num" /\ ch.sds[k].kind = "num"
    /\ LET m == ch.means[k]
           v == ch.sds[k]
           dev == values[k] * m.den - m.num
       IN  dev * dev * v.den > 5 * 5 * v.num * m.den * m.den

\* the last iteration reached the alert step with a calibrated channel
Evaluated == Dispatched /\ tick.checked /\ ~Unset(TickChannel)

CriticalCondition ==
    Evaluated /\ \A k \in KeySet : Deviates(TickChannel, tick.values, k)

\* C1: an iteration that dispatches a frame to a channel with an unset
\* baseline fires, persists and notifies no alert of either severity.
NoAlertWhileUnset ==
    (Dispatched /\ Unset(TickChannel)) =>
        /\ ~tick.alert.warning
        /\ ~tick.alert.critical
        /\ tick.alert.saved = <<>>
        /\ tick.alert.mailed = <<>>

\* an uncalibrated channel has been given a reading of 17 on every wavelength
NoAlertWhileUnsetWitness ==
    /\ Dispatched /\ tick.checked /\ Unset(TickChannel)
    /\ \A k \in KeySet : k \in DOMAIN tick.values /\ tick.values[k] = 17

\* C2: for a calibrated channel the WARNING branch is taken iff at least
\* one scored wavelength of the reading has |z| > 5.
WarningIffAnyDeviates ==
    Evaluated =>
        (tick.alert.warning <=>
            \E k \in KeySet : Deviates(TickChannel, tick.values, k))

\* the WARNING branch taken for a reading in which R alone deviates, G
\* being scored with |z| = 5 exactly
WarningIffAnyDeviatesWitness ==
    /\ Evaluated /\ tick.alert.warning
    /\ Deviates(TickChannel, tick.values, "R")
    /\ Scored(TickChannel, tick.values, "G")
    /\ ~Deviates(TickChannel, tick.values, "G")
    /\ TickChannel.means["G"] = Rat(11, 1) /\ TickChannel.sds["G"] = Rat(1, 1)
    /\ tick.values["G"] = 16

\* C3: for a calibrated channel the CRITICAL branch is taken iff all three
\* wavelengths are scored and have |z| > 5.
CriticalIffAllDeviate ==
    Evaluated => (tick.alert.critical <=> CriticalCondition)

\* C4: an iteration in which the CRITICAL condition holds records a WARNING
\* row followed by a CRITICAL row, and no CRITICAL row is recorded without a
\* WARNING row of the same iteration.
BothAlertsRecorded ==
    /\ CriticalCondition => tick.alert.saved = <<"WARNING", "CRITICAL">>
    /\ \A i \in 1..Len(tick.alert.saved) :
          tick.alert.saved[i] = "CRITICAL" =>
              \E j \in 1..(i - 1) : tick.alert.saved[j] = "WARNING"

\* C5: every alert that fires has its row appended to the alerts table, and
\* no more sends are attempted than rows were appended before them.
AlertPersistedBeforeNotified ==
    /\ tick.alert.warning =>
          \E i \in 1..Len(tick.alert.saved) : tick.alert.saved[i] = "WARNING"
    /\ tick.alert.critical =>
          \E i \in 1..Len(tick.alert.saved) : tick.alert.saved[i] = "CRITICAL"
    /\ Len(tick.alert.mailed) <= Len(tick.alert.saved)
    /\ Dispatched =>
          \A i \in 1..Len(tick.alert.saved) :
              \E j \in 1..Len(alerts) :
                  /\ alerts[j].channel = tick.ch
                  /\ alerts[j].alert_type = tick.alert.saved[i]

\* C6: an iteration in which the CRITICAL condition holds stops monitoring
\* and invokes the shutdown hook when auto_shutdown_enabled is 'true', and
\* otherwise leaves monitoring_active as loaded and invokes no hook.
AutoShutdownGate ==
    [][(ticks' = ticks + 1 /\ CriticalCondition') =>
          LET st == load_settings(db_settings)
          IN  IF st["auto_shutdown_enabled"] = "true"
              THEN /\ tick'.alert.shutdown
                   /\ db_settings'["monitoring_active"] = "false"
              ELSE /\ ~tick'.alert.shutdown
                   /\ db_settings'["monitoring_active"] = st["monitoring_active"]
                   /\ settings'["monitoring_active"] = st["monitoring_active"]]_vars

\* C7: within one process a calibrated channel stays calibrated.
CalibrationMonotonic ==
    [][pc \notin {"idle", "exec"} =>
          \A c \in DOMAIN channels :
              is_calibrated(channels[c]) =>
                  c \in DOMAIN channels' /\ is_calibrated(channels'[c])]_vars

\* a channel that was already calibrated has been recomputed
CalibrationMonotonicWitness ==
    Dispatched /\ tick.precal /\ tick.recompute = "done"

\* C8: a recompute runs only when at least calculation_interval seconds
\* have passed since the channel's last one (or its creation), and right
\* after it the three buffers are empty and the timestamp is the time of
\* the iteration.
RecomputeOnlyWhenDue ==
    /\ (Dispatched /\ tick.recompute # "none") =>
          tick.elapsed >= calculation_interval
    /\ (Dispatched /\ tick.recompute = "done") =>
          /\ \A k \in KeySet : TickChannel.saved_values[k] = <<>>
          /\ TickChannel.last_calculation_time = tick.at

\* a recompute has run exactly calculation_interval seconds after the last
RecomputeOnlyWhenDueWitness ==
    /\ Dispatched /\ tick.recompute = "done"
    /\ tick.elapsed = calculation_interval

\* the buffer of wavelength k that a recompute in the step to the next
\* state works on: the stored buffer and the reading of that iteration
BufferAtRecompute(c, k) ==
    Append(channels[c].saved_values[k],
           IF k \in DOMAIN tick'.values THEN <<tick'.values[k]>> ELSE <<>>)

\* C9: a recompute leaves the baseline of a wavelength whose buffer holds
\* only missing values as it was.
AllMissingKeepsBaseline ==
    [][\A c \in DOMAIN channels : \A k \in KeySet :
          (/\ ticks' = ticks + 1
           /\ tick'.ch = c
           /\ tick'.recompute = "done"
           /\ nonmissing(BufferAtRecompute(c, k)) = <<>>) =>
              /\ channels'[c].means[k] = channels[c].means[k]
              /\ channels'[c].sds[k] = channels[c].sds[k]]_vars

\* C10: a channel is calibrated iff every wavelength had a non-missing
\* sample in the buffer of some recompute of the channel.
CalibratedIffAllSampled ==
    \A c \in DOMAIN channels :
        is_calibrated(channels[c]) <=> (c \in DOMAIN sampled /\ sampled[c] = KeySet)

\* C11: a wavelength whose value on the wire is <= 0 is left out of the
\* parser's result: no reading handed to the dispatcher carries a value
\* <= 0 and no sample buffer holds one.
NonPositiveOmitted ==
    /\ \A k \in DOMAIN tick.values \cap KeySet : tick.values[k] > 0
    /\ \A c \in DOMAIN channels : \A k \in KeySet :
          \A i \in 1..Len(channels[c].saved_values[k]) :
              channels[c].saved_values[k][i] # <<>> =>
                  channels[c].saved_values[k][i][1] > 0

\* C12: the parser gives a non-empty result only for a line that has the
\* channel tag and the three wavelengths as field labels.
NonEmptyOnlyIfLabelled ==
    tick.values # EmptyDict => tick.labelled

\* C13: an iteration whose line is malformed (a heartbeat, too few fields,
\* a missing label, a payload that is not an integer) or whose read fails
\* gets an empty result and raises nothing: no row is written, no channel
\* is created or changed, no alert is evaluated and the loop goes on.
MalformedLineDropped ==
    [][(ticks' = ticks + 1 /\ tick'.malformed) =>
          /\ tick'.values = EmptyDict
          /\ ~tick'.raised /\ ~tick'.checked
          /\ UNCHANGED <<channels, readings, statistics, alerts, mails>>
          /\ pc' = "loop"]_vars

\* the channel tag of the last iteration's frame is not in the map
UnmappedTag ==
    /\ "CH" \in DOMAIN tick.values
    /\ tick.values["CH"] \notin DOMAIN atlaspc_channel_map

\* C14: a frame with an unmapped channel tag raises (the loop is left
\* through its exception handler); it writes no reading row, buffers no
\* sample and registers no channel.
UnmappedTagRaises ==
    UnmappedTag =>
        /\ tick.raised /\ pc = "exited"
        /\ ~tick.reading /\ ~tick.created /\ tick.ch = 0
        /\ tick.values["CH"] \notin DOMAIN channels
        /\ \A row \in readings : row[2] # tick.values["CH"]

\* a frame of channel 9 has been read while channel 1 was registered
UnmappedTagRaisesWitness ==
    /\ UnmappedTag /\ tick.values["CH"] = 9
    /\ 1 \in DOMAIN channels /\ readings # {}

\* monitoring goes on after the step as the reload of the iteration found it
MonitoringGoesOn ==
    /\ pc' = "loop"
    /\ settings'["monitoring_active"] = load_settings(db_settings)["monitoring_active"]
    /\ db_settings'["monitoring_active"] = load_settings(db_settings)["monitoring_active"]

\* C15: an iteration in which the INSERT of save_reading fails records no
\* reading, leaves the loop running and leaves monitoring_active alone.
SaveReadingFailureTransient ==
    [][(ticks' = ticks + 1 /\ tick'.fault = "save_reading") =>
          /\ readings' = readings
          /\ MonitoringGoesOn]_vars

\* C16: a recompute whose INSERT into statistics fails leaves the buffers
\* with all their samples and the baselines and the timestamp as they were.
FailedStatisticsInsertKeepsState ==
    [][\A c \in DOMAIN channels :
          (ticks' = ticks + 1 /\ tick'.ch = c /\ tick'.fault = "statistics") =>
              /\ statistics' = statistics
              /\ \A k \in KeySet :
                    /\ channels'[c].saved_values[k] = BufferAtRecompute(c, k)
                    /\ channels'[c].means[k] = channels[c].means[k]
                    /\ channels'[c].sds[k] = channels[c].sds[k]
              /\ channels'[c].last_calculation_time =
                    channels[c].last_calculation_time]_vars

\* C17: when the retention DELETE that follows a recompute fails, the
\* recompute stands (statistics row, empty buffers, set baselines, new
\* timestamp) and monitoring goes on.
RetentionFailureBestEffort ==
    [][\A c \in DOMAIN channels :
          (ticks' = ticks + 1 /\ tick'.ch = c /\ tick'.fault = "cleanup") =>
              /\ <<atlaspc_channel_map[c], c>> \in statistics'
              /\ \A k \in KeySet : channels'[c].saved_values[k] = <<>>
              /\ is_calibrated(channels'[c])
              /\ channels'[c].last_calculation_time = tick'.at
              /\ MonitoringGoesOn]_vars

\* every alert that fired in the iteration of the step has its row in the
\* alerts table after it
FiredAlertsPersisted ==
    \A type \in {"WARNING", "CRITICAL"} :
        ((type = "WARNING" /\ tick'.alert.warning)
            \/ (type = "CRITICAL" /\ tick'.alert.critical)) =>
            \E j \in (Len(alerts) + 1)..Len(alerts') :
                alerts'[j].channel = tick'.ch /\ alerts'[j].alert_type = type

\* C18: in an iteration whose reload finds email_enabled other than 'true'
\* no send is attempted, for a channel of any age, and every alert that
\* fires is persisted.
EmailDisabledSuppressesSends ==
    [][(ticks' = ticks + 1 /\ load_settings(db_settings)["email_enabled"] # "true") =>
          /\ mails' = mails
          /\ tick'.alert.mailed = <<>>
          /\ FiredAlertsPersisted]_vars

\* C19: when an alert fires with mail enabled and the SMTP session fails,
\* the send is attempted and delivers to nobody, the row of the alert is in
\* the table, the CRITICAL step is still evaluated and monitoring goes on.
NotifierFailureNotFatal ==
    [][(ticks' = ticks + 1 /\ tick'.fault = "smtp") =>
          /\ tick'.alert.mailed # <<>>
          /\ \A i \in 1..Len(tick'.alert.mailed) : ~tick'.alert.mailed[i].delivered
          /\ FiredAlertsPersisted
          /\ CriticalCondition' => tick'.alert.critical
          /\ MonitoringGoesOn]_vars

\* C20: once time.time() has reached restart_time at the top of the loop,
\* the iteration reads and dispatches no frame; the restart closes the
\* serial port and writes monitoring_active = 'false' before os.execv; the
\* new process starts with an empty registry and a fresh budget, and a
\* channel gets calibrated only by a recompute of its own.
RestartAtBudget ==
    [][/\ (pc = "loop" /\ settings["monitoring_active"] = "true"
               /\ now >= restart_time) =>
             /\ ticks' = ticks
             /\ UNCHANGED <<channels, readings, statistics, alerts, tick>>
       /\ (pc = "loop" /\ pc' = "exec") =>
             /\ now >= restart_time
             /\ ~arduino_serial'
             /\ db_settings'["monitoring_active"] = "false"
       /\ (pc = "exec" /\ pc' # "exec") =>
             /\ channels' = EmptyDict
             /\ restart_time' = now + restart_budget
       /\ \A c \in DOMAIN channels' :
             (/\ is_calibrated(channels'[c])
              /\ c \in DOMAIN channels => ~is_calibrated(channels[c])) =>
                 tick'.ch = c /\ tick'.recompute # "none"]_vars

\* after a restart, channel 2, which has readings from the old process, is
\* not in the registry, and a frame of the new process has created its
\* channel, uncalibrated
RestartAtBudgetWitness ==
    /\ pc = "loop" /\ restart_time >= 2 * restart_budget
    /\ <<atlaspc_channel_map[2], 2>> \in readings /\ 2 \notin DOMAIN channels
    /\ Dispatched /\ tick.created /\ Unset(TickChannel)
    /\ tick.at >= restart_budget
    /\ TickChannel.last_calculation_time = tick.at

ConnectFailureAborts ==
    [][/\ (pc = "init" /\ pc' = "exited") =>
             /\ tick'.fault = "connect"
             /\ ~arduino_serial'
             /\ ticks' = ticks
             /\ channels' = EmptyDict
             /\ UNCHANGED <<readings, statistics, alerts, mails>>
             /\ db_settings'["monitoring_active"] = "true" =>
                   /\ "monitoring_active" \in DOMAIN db_settings
                   /\ db_settings["monitoring_active"] = "true"
       /\ tick.fault = "connect" =>
             UNCHANGED <<pc, ticks, channels, readings, statistics, alerts>>]_vars

\* run() has returned on a failed connection with monitoring_active stored
\* as 'false'
ConnectFailureAbortsWitness ==
    /\ tick.fault = "connect" /\ pc = "exited" /\ ticks = 0
    /\ db_settings["monitoring_active"] = "false"

\* the baseline standard deviation of wavelength k of ch is 0
ZeroStd(ch, k) == ch.sds[k].kind = "num" /\ ch.sds[k].num = 0

\* C23: in an iteration that evaluates a calibrated channel, a wavelength
\* gets a z-score iff its baseline std is not 0, and with std = 0 on all
\* three wavelengths no alert fires.
ZeroStdExcludedExactly ==
    Evaluated =>
        /\ \A k \in KeySet :
              k \in DOMAIN calculate_z_scores(TickChannel, tick.values)
                  <=> ~ZeroStd(TickChannel, k)
        /\ (\A k \in KeySet : ZeroStd(TickChannel, k)) =>
              ~tick.alert.warning /\ ~tick.alert.critical

\* C24: while a process runs, the registry only grows: a channel enters it
\* by the first frame of its mapped tag, a later frame of the tag works on
\* the state that is there (a frame that does not recompute extends the
\* buffers and keeps the baselines), a frame leaves the other channels
\* alone, and the unit of a channel, and of every reading, statistics and
\* alert row, is the map's value for the channel.
RegistryGrowsOnly ==
    [][(pc = "loop" /\ pc' \in {"loop", "exited"}) =>
          /\ DOMAIN channels \subseteq DOMAIN channels'
          /\ \A c \in DOMAIN channels' \ DOMAIN channels :
                /\ ticks' = ticks + 1 /\ tick'.ch = c /\ tick'.created
                /\ c \in DOMAIN atlaspc_channel_map
          /\ \A c \in DOMAIN channels :
                IF ticks' = ticks + 1 /\ tick'.ch = c
                THEN /\ ~tick'.created
                     /\ (tick'.reading /\ tick'.recompute = "none") =>
                           /\ \A k \in KeySet :
                                 channels'[c].saved_values[k] = BufferAtRecompute(c, k)
                           /\ channels'[c].means = channels[c].means
                           /\ channels'[c].sds = channels[c].sds
                           /\ channels'[c].last_calculation_time =
                                 channels[c].last_calculation_time
                ELSE channels'[c] = channels[c]
          /\ \A c \in DOMAIN channels' :
                /\ channels'[c].channel = c
                /\ channels'[c].atlaspc = atlaspc_channel_map[c]
          /\ \A row \in readings' \cup statistics' :
                row[1] = atlaspc_channel_map[row[2]]
          /\ \A i \in 1..Len(alerts') :
                alerts'[i].atlaspc = atlaspc_channel_map[alerts'[i].channel]]_vars

\* with two channels registered, a frame has been buffered behind an
\* earlier one of its channel
RegistryGrowsOnlyWitness ==
    /\ Dispatched /\ ~tick.created /\ tick.recompute = "none"
    /\ tick.buffered["G"] >= 2
    /\ DOMAIN channels = {1, 2}

\* C25: the monitor's load_settings never replaces a stored value: a start
\* changes no stored setting but monitoring_active, to 'true', when it
\* enters the loop, and an iteration changes none but monitoring_active,
\* to 'false', when it leaves the loop.
DefaultsOnlyForAbsentKeys ==
    [][/\ (pc = "init" /\ pc' # "init") =>
             \A k \in DOMAIN db_settings :
                 \/ db_settings'[k] = db_settings[k]
                 \/ /\ k = "monitoring_active" /\ pc' = "loop"
                    /\ db_settings'[k] = "true"
       /\ ticks' = ticks + 1 =>
             \A k \in DOMAIN db_settings :
                 \/ db_settings'[k] = db_settings[k]
                 \/ /\ k = "monitoring_active" /\ pc' = "exited"
                    /\ db_settings'[k] = "false"]_vars

\* C26: an iteration whose reload finds monitoring_active other than 'true'
\* dispatches no frame: it writes no reading, buffers no sample, runs no
\* recompute and evaluates no alert.
NoDispatchWhenInactive ==
    [][(/\ ticks' = ticks + 1
        /\ load_settings(db_settings)["monitoring_active"] # "true") =>
          /\ tick'.ch = 0 /\ ~tick'.reading /\ ~tick'.checked
          /\ tick'.recompute = "none"
          /\ UNCHANGED <<channels, readings, statistics, alerts>>]_vars

\* C27: the three buffers of a channel always have the same length, the
\* buffers a recompute works on hold at least one entry, and the baselines
\* of a channel are either all unassigned (None) or all assigned.
BuffersEqualLength ==
    /\ \A c \in DOMAIN channels : \A k \in KeySet :
          /\ Len(channels[c].saved_values[k]) = Len(channels[c].saved_values["R"])
          /\ (channels[c].means[k].kind = "None") = (channels[c].means["R"].kind = "None")
          /\ (channels[c].sds[k].kind = "None") = (channels[c].means[k].kind = "None")
    /\ \A k \in KeySet : tick.buffered[k] = tick.buffered["R"]
    /\ (Dispatched /\ tick.recompute # "none") =>
          \A k \in KeySet : tick.buffered[k] >= 1

\* a recompute has worked on buffers of two entries, the later one from a
\* reading without R
BuffersEqualLengthWitness ==
    /\ Dispatched /\ tick.recompute = "done"
    /\ "R" \notin DOMAIN tick.values
    /\ \A k \in KeySet : tick.buffered[k] = 2
    /\ is_calibrated(TickChannel)

====
